---- MODULE Spec2Model ----
(***************************************************************************)
(* Model of the stock price scraper: StockScraper (src/data_loader.py) and *)
(* the Streamlit script that drives it (src/app.py).                       *)
(*                                                                         *)
(* Strings are sequences of one-character strings.  The unit suffix U+682A *)
(* that the volume column carries is written "S".  The canonical column    *)
(* names stand for the Japanese headers the code assigns at line 109:      *)
(*   date, open, high, low, close, change, change_percent, volume.         *)
(***************************************************************************)
EXTENDS Integers, Sequences, FiniteSets, TLC

VARIABLES
    browsers,   \* Chrome processes started so far: [status, quits, implicit_wait, page_load_timeout]
    objs,       \* StockScraper instances created so far: [driver, init_ok]
    scraper,    \* st.session_state.scraper / the caller's reference: 0 (None) or an index of objs
    data,       \* st.session_state.data: None or a DataFrame
    hooks,      \* number of cleanup functions registered with atexit
    phase,      \* "serving", "exiting" (atexit hooks running), "exited"
    page,       \* what the site serves to the call of get_stock_data in progress / last made
    ret,        \* outcome of the last get_stock_data call: [called, exc, val, log, reached]
    last_ok,    \* history: the last DataFrame a get_stock_data call returned (None if none)
    init_exc,   \* whether the last StockScraper(...) call raised
    closed      \* outcome of the last close_driver call: [called, before, quit_called, exc]

vars == <<browsers, objs, scraper, data, hooks, phase, page, ret, last_ok, init_exc, closed>>

-----------------------------------------------------------------------------
(* Bounds of the model *)

MaxCellLen == 3     \* longest numeric cell text enumerated exhaustively
MaxRows == 2        \* most data rows of a parsed table
MaxObjs == 2        \* most StockScraper(...) calls in one run
MaxRuns == 4        \* most script runs (each registers one atexit hook)
MaxCloses == 2      \* most quit() calls on one browser
MaxCols == 9        \* widest parsed table

-----------------------------------------------------------------------------
(* Python values *)

None == [none |-> TRUE, rows |-> <<>>]
DataFrame(rows) == [none |-> FALSE, rows |-> rows]

NaN == [nan |-> TRUE, num |-> 0, scale |-> 0]
NaT == [nat |-> TRUE, y |-> 0, m |-> 0, d |-> 0]
Timestamp(y, m, d) == [nat |-> FALSE, y |-> y, m |-> m, d |-> d]

\* A cell of an object column holding text, and one holding a Timestamp.
Str(s) == [k |-> "str", s |-> s, t |-> NaT]
Ts(t) == [k |-> "ts", s |-> <<>>, t |-> t]

Digits == {"0", "1", "2", "3", "4", "5", "6", "7", "8", "9"}

DigitVal(c) ==
    CASE c = "0" -> 0 [] c = "1" -> 1 [] c = "2" -> 2 [] c = "3" -> 3
      [] c = "4" -> 4 [] c = "5" -> 5 [] c = "6" -> 6 [] c = "7" -> 7
      [] c = "8" -> 8 [] c = "9" -> 9

DigitChar(n) ==
    CASE n = 0 -> "0" [] n = 1 -> "1" [] n = 2 -> "2" [] n = 3 -> "3"
      [] n = 4 -> "4" [] n = 5 -> "5" [] n = 6 -> "6" [] n = 7 -> "7"
      [] n = 8 -> "8" [] n = 9 -> "9"

IsDigits(s) == \A i \in 1..Len(s) : s[i] \in Digits

RECURSIVE DigitsVal(_)
DigitsVal(s) ==
    IF s = <<>> THEN 0
    ELSE DigitsVal(SubSeq(s, 1, Len(s) - 1)) * 10 + DigitVal(s[Len(s)])

\* The float num / 10^scale, with trailing fractional zeros dropped so that
\* equal floats are equal records.
RECURSIVE Float(_, _)
Float(num, scale) ==
    IF num = 0 THEN [nan |-> FALSE, num |-> 0, scale |-> 0]
    ELSE IF scale > 0 /\ num % 10 = 0 THEN Float(num \div 10, scale - 1)
    ELSE [nan |-> FALSE, num |-> num, scale |-> scale]

-----------------------------------------------------------------------------
(* str.replace, pd.to_numeric, strptime / strftime *)

\* Series.str.replace(pat, rep) on one cell: every non-overlapping occurrence
\* of the literal pat, left to right.
RECURSIVE Replace(_, _, _)
Replace(s, pat, rep) ==
    IF Len(s) < Len(pat) THEN s
    ELSE IF SubSeq(s, 1, Len(pat)) = pat
         THEN rep \o Replace(SubSeq(s, Len(pat) + 1, Len(s)), pat, rep)
         ELSE <<s[1]>> \o Replace(Tail(s), pat, rep)

\* pd.to_numeric(cell, errors='coerce'): an optional sign, digits with at most
\* one decimal point and at least one digit; anything else (the text "NaN"
\* included) is NaN.
ToNumeric(s) ==
    LET signed == Len(s) > 0 /\ s[1] \in {"-", "+"}
        body == IF signed THEN Tail(s) ELSE s
        dots == {i \in 1..Len(body) : body[i] = "."}
        p == IF dots = {} THEN Len(body) + 1 ELSE CHOOSE i \in dots : TRUE
        ip == SubSeq(body, 1, p - 1)
        fp == SubSeq(body, p + 1, Len(body))
        mag == DigitsVal(ip \o fp)
    IN  IF Cardinality(dots) <= 1 /\ IsDigits(ip) /\ IsDigits(fp)
           /\ Len(ip) + Len(fp) > 0
        THEN Float(IF signed /\ s[1] = "-" THEN 0 - mag ELSE mag, Len(fp))
        ELSE NaN

RECURSIVE Split(_, _)
Split(s, sep) ==
    LET hits == {i \in 1..Len(s) : s[i] = sep}
    IN  IF hits = {} THEN <<s>>
        ELSE LET i == CHOOSE j \in hits : \A h \in hits : j <= h
             IN  <<SubSeq(s, 1, i - 1)>> \o Split(SubSeq(s, i + 1, Len(s)), sep)

IsLeap(y) == (y % 4 = 0 /\ y % 100 # 0) \/ y % 400 = 0

DaysInMonth(y, m) ==
    IF m = 2 THEN (IF IsLeap(y) THEN 29 ELSE 28)
    ELSE IF m \in {4, 6, 9, 11} THEN 30 ELSE 31

\* strptime with the format "%y/%m/%d" (fmt = "y") or "%Y/%m/%d" (fmt = "Y"):
\* %y is exactly two digits (69-99 -> 19xx, 00-68 -> 20xx), %Y exactly four,
\* %m and %d one or two digits in range; the whole text must match.
Strptime(s, fmt) ==
    LET f == Split(s, "/")
    IN  IF Len(f) # 3 \/ ~(\A i \in 1..3 : IsDigits(f[i])) THEN NaT
        ELSE IF Len(f[1]) # (IF fmt = "y" THEN 2 ELSE 4) THEN NaT
        ELSE IF Len(f[2]) \notin {1, 2} \/ Len(f[3]) \notin {1, 2} THEN NaT
        ELSE LET yy == DigitsVal(f[1])
                 y == IF fmt = "Y" THEN yy
                      ELSE IF yy >= 69 THEN 1900 + yy ELSE 2000 + yy
                 m == DigitsVal(f[2])
                 d == DigitsVal(f[3])
             IN  IF m \in 1..12 /\ d >= 1 /\ d <= DaysInMonth(y, m) /\ y >= 1
                 THEN Timestamp(y, m, d)
                 ELSE NaT

TwoDigits(n) == <<DigitChar((n \div 10) % 10), DigitChar(n % 10)>>

FourDigits(n) == TwoDigits(n \div 100) \o TwoDigits(n % 100)

\* Series.dt.strftime('%y/%m/%d') on one Timestamp
Strftime(t) == TwoDigits(t.y % 100) \o <<"/">> \o TwoDigits(t.m) \o <<"/">> \o TwoDigits(t.d)

\* pd.to_datetime(column, format=..., errors='coerce'): a Timestamp passes
\* through, text is parsed with the format, what does not parse is NaT.  With
\* errors='coerce' a text that does not match raises nothing.
ToDatetime(col, fmt) ==
    [raised |-> FALSE,
     val |-> [i \in 1..Len(col) |->
                 IF col[i].k = "ts" THEN Ts(col[i].t) ELSE Ts(Strptime(col[i].s, fmt))]]

-----------------------------------------------------------------------------
(* StockScraper.get_stock_data *)

Columns == <<"date", "open", "high", "low", "close", "change", "change_percent", "volume">>

Comma == <<",">>
Percent == <<"%">>
Kabu == <<"S">>
Dashes == <<"-", "-", "-">>
NaNText == <<"N", "a", "N">>

\* An exception leaving the statement `at`.
Raise(exc, at) == [exc |-> exc, val |-> None, log |-> "none", reached |-> at]

ColumnGateSeven(df) == df.ncols >= 7

\* len(df.columns) >= 8
ColumnGate(df) == df.ncols >= 8

\* df.columns = [...]: pandas raises ValueError (length mismatch) unless the
\* list is as long as the frame is wide.
AssignColumns(df, names) == df.ncols = Len(names)

\* df[col].astype(str).str.replace(',', '').str.replace('---', 'NaN'), then to_numeric
CleanPrice(s) == ToNumeric(Replace(Replace(s, Comma, <<>>), Dashes, NaNText))

\* df['change_percent'].astype(str).str.replace('%', '').str.replace('---', 'NaN'), then to_numeric
CleanPercent(s) == ToNumeric(Replace(Replace(s, Percent, <<>>), Dashes, NaNText))

\* df['volume'] ... .str.replace(',', '').str.replace(<unit>, '').str.replace('---', 'NaN'), then to_numeric
CleanVolume(s) ==
    ToNumeric(Replace(Replace(Replace(s, Comma, <<>>), Kabu, <<>>), Dashes, NaNText))

\* pd.api.types.is_datetime64_any_dtype(column)
IsDatetime64(col) == Len(col) > 0 /\ \A i \in 1..Len(col) : col[i].k = "ts"

\* The date column after lines 129-147.  `orig` is the saved copy of the
\* column; the second format is tried only in the handler of an exception
\* raised by the first conversion.
ConvertDates(orig) ==
    LET col == IF IsDatetime64(orig)
               THEN [i \in 1..Len(orig) |->
                        IF orig[i].t.nat THEN Ts(NaT) ELSE Str(Strftime(orig[i].t))]
               ELSE orig
        first == ToDatetime(col, "y")
        second == ToDatetime(orig, "Y")
    IN  IF ~first.raised THEN first.val
        ELSE IF ~second.raised THEN second.val
        ELSE col

SortKey(r) ==
    IF r.date.k = "ts" /\ ~r.date.t.nat
    THEN r.date.t.y * 10000 + r.date.t.m * 100 + r.date.t.d
    ELSE 0 - 1

RECURSIVE Insert(_, _)
Insert(sorted, r) ==
    IF sorted = <<>> THEN <<r>>
    ELSE IF SortKey(Head(sorted)) >= SortKey(r)
         THEN <<Head(sorted)>> \o Insert(Tail(sorted), r)
         ELSE <<r>> \o sorted

\* df.sort_values(date, ascending=False).reset_index(drop=True): latest date
\* first, NaT last, equal dates in their original order.
RECURSIVE SortValues(_)
SortValues(rows) ==
    IF rows = <<>> THEN <<>>
    ELSE Insert(SortValues(SubSeq(rows, 1, Len(rows) - 1)), rows[Len(rows)])

\* Lines 115-156 on a frame that has its eight names and at least one row.
Cleanse(rows) ==
    LET dates == ConvertDates([i \in 1..Len(rows) |-> rows[i][1]])
    IN  SortValues([i \in 1..Len(rows) |->
            [date |-> dates[i],
             open |-> CleanPrice(rows[i][2].s),
             high |-> CleanPrice(rows[i][3].s),
             low |-> CleanPrice(rows[i][4].s),
             close |-> CleanPrice(rows[i][5].s),
             change |-> CleanPrice(rows[i][6].s),
             change_percent |-> CleanPercent(rows[i][7].s),
             volume |-> CleanVolume(rows[i][8].s)]])

\* Lines 108-162: the frame read_html produced, to the return statement.
Shape(df) ==
    IF ~ColumnGate(df)
    THEN [exc |-> "none", val |-> None, log |-> "columns", reached |-> "gate"]
    ELSE IF ~AssignColumns(df, Columns) THEN Raise("ValueError", "assign_columns")
    ELSE IF Len(df.rows) = 0 THEN Raise("IndexError", "iloc")
    ELSE [exc |-> "none", val |-> DataFrame(Cleanse(df.rows)), log |-> "ok",
          reached |-> "return"]

\* Lines 75-162, the body of the try statement.  driver is "absent" (the
\* object has no driver attribute), "dead" (quit() was called on it: the
\* session is gone, a command raises InvalidSessionIdException, which is a
\* WebDriverException) or "running".
Body(driver, pg) ==
    IF driver = "absent" THEN Raise("AttributeError", "get")
    ELSE IF driver = "dead" THEN Raise("WebDriverException", "get")
    ELSE IF pg.fail.at # "none" THEN Raise(pg.fail.exc, pg.fail.at)
    ELSE Shape(pg.table)

\* isinstance(exc, cls) for the exception classes involved
IsInstance(exc, cls) ==
    \/ cls = exc
    \/ cls = "WebDriverException" /\ exc \in {"TimeoutException", "NoSuchElementException"}
    \/ cls = "Exception"

HandlersNoCatchAll ==
    << [cls |-> "TimeoutException", log |-> "timeout"],
       [cls |-> "NoSuchElementException", log |-> "not_found"],
       [cls |-> "WebDriverException", log |-> "webdriver"],
       [cls |-> "ValueError", log |-> "value"] >>

\* The except clauses of lines 164-178, in order.
Handlers ==
    << [cls |-> "TimeoutException", log |-> "timeout"],
       [cls |-> "NoSuchElementException", log |-> "not_found"],
       [cls |-> "WebDriverException", log |-> "webdriver"],
       [cls |-> "ValueError", log |-> "value"],
       [cls |-> "Exception", log |-> "unexpected"] >>

\* The first clause that matches logs its message and returns None; an
\* exception no clause matches leaves the function.
Handle(r) ==
    LET hits == {i \in 1..Len(Handlers) : IsInstance(r.exc, Handlers[i].cls)}
    IN  IF r.exc = "none" \/ hits = {} THEN r
        ELSE [exc |-> "none", val |-> None,
              log |-> Handlers[CHOOSE i \in hits : \A j \in hits : i <= j].log,
              reached |-> r.reached]

get_stock_data(driver, pg) == Handle(Body(driver, pg))

-----------------------------------------------------------------------------
(* StockScraper.__init__ and StockScraper.close_driver *)

\* The steps of __init__ that can raise.  ChromeDriverManager().install() runs
\* only when no webdriver_path is given.
InitSteps(webdriver_path) ==
    (IF webdriver_path THEN {} ELSE {"install"})
        \cup {"Chrome", "implicitly_wait", "set_page_load_timeout"}

\* __init__(webdriver_path, headless) when the step fail_at raises ("none":
\* no step does).  webdriver.Chrome(...) starts the browser and binds
\* self.driver; the two timeouts are set after it; the except clause logs and
\* re-raises, and does nothing else.
Construct(webdriver_path, headless, fail_at) ==
    LET started == fail_at \notin {"install", "Chrome"}
    IN  [raised |-> fail_at # "none",
         started |-> started,
         browser |-> [status |-> "running", quits |-> 0, headless |-> headless,
                      implicit_wait |-> IF fail_at \in {"implicitly_wait"} THEN 0 ELSE 10,
                      page_load_timeout |->
                          IF fail_at \in {"implicitly_wait", "set_page_load_timeout"}
                          THEN 0 ELSE 30]]

\* The state of the driver an object holds, as get_stock_data and close_driver see it.
DriverState(o, bs) ==
    IF o.driver = 0 THEN "absent"
    ELSE IF bs[o.driver].status = "quit" THEN "dead"
    ELSE "running"

\* close_driver(self): quit() is called whenever the driver attribute exists;
\* quit_ok says whether that call succeeds.  An exception of quit() is logged.
close_driver(o, bs, quit_ok) ==
    IF o.driver = 0
    THEN [browsers |-> bs, quit_called |-> FALSE, exc |-> "none"]
    ELSE [browsers |->
              [bs EXCEPT ![o.driver].quits = @ + 1,
                         ![o.driver].status = IF quit_ok THEN "quit" ELSE @],
          quit_called |-> TRUE, exc |-> "none"]

-----------------------------------------------------------------------------
(* Inputs *)

NoFail == [at |-> "none", exc |-> "none"]

\* The exceptions the statements of lines 80-97 raise.
Failures ==
    { [at |-> "get", exc |-> "TimeoutException"],
      [at |-> "get", exc |-> "WebDriverException"],
      [at |-> "until", exc |-> "TimeoutException"],
      [at |-> "find_element", exc |-> "NoSuchElementException"],
      [at |-> "read_html", exc |-> "ValueError"],
      [at |-> "read_html", exc |-> "ImportError"] }

CellAlphabet == {"1", "2", ",", ".", "%", "-", "S"}

RECURSIVE Texts(_)
Texts(n) ==
    IF n = 0 THEN {<<>>}
    ELSE LET shorter == Texts(n - 1)
         IN  shorter \cup {Append(t, c) : t \in {u \in shorter : Len(u) = n - 1},
                                          c \in CellAlphabet}

SeqsUpTo(S, n) == UNION {[1..k -> S] : k \in 0..n}

DateText2(d) == Strftime(Timestamp(d[1], d[2], d[3]))
DateText4(d) == FourDigits(d[1]) \o <<"/">> \o TwoDigits(d[2]) \o <<"/">> \o TwoDigits(d[3])

SampleDates == {<<2023, 1, 15>>, <<2023, 1, 16>>, <<1999, 12, 31>>, <<2023, 2, 30>>}

DateCells ==
    {Str(DateText2(d)) : d \in SampleDates}
        \cup {Str(DateText4(d)) : d \in SampleDates}
        \cup {Str(Dashes), Str(<<>>)}
        \cup {Ts(Timestamp(2023, 1, 15)), Ts(Timestamp(2023, 1, 16))}

PercentSamples == {<<"1", ".", "5", "%">>, <<"1", ",", "2", "%">>}

BaseRow ==
    << Str(DateText2(<<2023, 1, 15>>)), Str(<<"1", ",", "2">>), Str(<<"2", "1">>),
       Str(<<"1">>), Str(<<"1", "2">>), Str(<<"-", "1">>), Str(<<"1", ".", "5", "%">>),
       Str(<<"1", ",", "2", "S">>) >>

\* The row cut or padded to n cells.
Resize(row, n) ==
    [i \in 1..n |-> IF i <= Len(row) THEN row[i] ELSE Str(<<"1">>)]

SampleRows ==
    {[BaseRow EXCEPT ![1] = d, ![7] = Str(q)] : d \in DateCells, q \in PercentSamples}

Table(ncols, rows) == [ncols |-> ncols, rows |-> rows]

\* One row, one numeric cell ranging over every text of the alphabet.
TextTables ==
    {Table(8, <<[BaseRow EXCEPT ![c] = Str(t)]>>) : c \in 2..8, t \in Texts(MaxCellLen)}

\* Up to MaxRows rows of the sample dates and percentages.
SampleTables == {Table(8, rows) : rows \in SeqsUpTo(SampleRows, MaxRows)}

\* Narrower and wider tables, with and without rows.
OtherWidths ==
    {Table(n, [i \in 1..k |-> Resize(BaseRow, n)]) : n \in (6..MaxCols) \ {8}, k \in 0..MaxRows}

Tables == TextTables \cup SampleTables \cup OtherWidths

Page(fail, table) == [fail |-> fail, table |-> table]

FetchPages ==
    {Page(f, Table(8, <<BaseRow>>)) : f \in Failures} \cup {Page(NoFail, t) : t \in Tables}

\* What the site serves during an interactive session.
AppPages ==
    {Page(f, Table(8, <<BaseRow>>)) : f \in Failures}
        \cup {Page(NoFail, t) : t \in
                { Table(8, <<BaseRow>>),
                  Table(8, <<BaseRow, [BaseRow EXCEPT ![1] = Str(DateText2(<<2023, 1, 16>>))]>>),
                  Table(8, <<>>),
                  Table(7, <<Resize(BaseRow, 7)>>),
                  Table(9, <<Resize(BaseRow, 9)>>) }}

-----------------------------------------------------------------------------
(* State *)

NotCalled == [called |-> FALSE, exc |-> "none", val |-> None, log |-> "none", reached |-> "none"]

Called(r) == [called |-> TRUE, exc |-> r.exc, val |-> r.val, log |-> r.log, reached |-> r.reached]

NotClosed == [called |-> FALSE, before |-> "absent", quit_called |-> FALSE, exc |-> "none"]

Fresh ==
    /\ data = None
    /\ hooks = 0
    /\ phase = "serving"
    /\ ret = NotCalled
    /\ last_ok = None
    /\ init_exc = FALSE
    /\ closed = NotClosed

\* The state after StockScraper(webdriver_path, headless) from the state
\* (bs, os): a new object, and a new browser if one was started.
AfterConstruct(bs, os, c) ==
    [browsers |-> IF c.started THEN Append(bs, c.browser) ELSE bs,
     objs |-> Append(os, [driver |-> IF c.started THEN Len(bs) + 1 ELSE 0,
                          init_ok |-> ~c.raised])]

-----------------------------------------------------------------------------
(* The Streamlit script, src/app.py *)

CacheAlways(df, old) == df

\* if df is not None and not df.empty: st.session_state.data = df
Cache(df, old) == IF ~df.none /\ Len(df.rows) > 0 THEN df ELSE old

Init ==
    /\ Fresh
    /\ browsers = <<>>
    /\ objs = <<>>
    /\ scraper = 0
    /\ page = Page(NoFail, Table(8, <<BaseRow>>))

\* A script run without a click: the cleanup hook is registered, the cached
\* data is shown.
RunIdle ==
    /\ phase = "serving"
    /\ hooks < MaxRuns
    /\ hooks' = hooks + 1
    /\ UNCHANGED <<browsers, objs, scraper, data, phase, page, ret, last_ok, init_exc, closed>>

\* A script run with the button clicked and no scraper in the session state,
\* whose StockScraper(headless=True) raises: st.stop() ends the run.
RunClickInitFails ==
    /\ phase = "serving"
    /\ hooks < MaxRuns
    /\ scraper = 0
    /\ Len(objs) < MaxObjs
    /\ \E fail_at \in InitSteps(FALSE) :
          LET after == AfterConstruct(browsers, objs, Construct(FALSE, TRUE, fail_at))
          IN  /\ browsers' = after.browsers
              /\ objs' = after.objs
    /\ init_exc' = TRUE
    /\ hooks' = hooks + 1
    /\ UNCHANGED <<scraper, data, phase, page, ret, last_ok, closed>>

\* A script run with the button clicked: the scraper is created if the
\* session state has none, get_stock_data is called, a non-empty result is cached.
RunClick ==
    /\ phase = "serving"
    /\ hooks < MaxRuns
    /\ scraper = 0 => Len(objs) < MaxObjs
    /\ \E pg \in AppPages :
          LET after == IF scraper = 0
                       THEN AfterConstruct(browsers, objs, Construct(FALSE, TRUE, "none"))
                       ELSE [browsers |-> browsers, objs |-> objs]
              self == IF scraper = 0 THEN Len(after.objs) ELSE scraper
              r == get_stock_data(DriverState(after.objs[self], after.browsers), pg)
          IN  /\ browsers' = after.browsers
              /\ objs' = after.objs
              /\ scraper' = self
              /\ init_exc' = IF scraper = 0 THEN FALSE ELSE init_exc
              /\ page' = pg
              /\ ret' = Called(r)
              /\ data' = IF r.exc = "none" THEN Cache(r.val, data) ELSE data
              /\ last_ok' = IF r.exc = "none" /\ ~r.val.none THEN r.val ELSE last_ok
    /\ hooks' = hooks + 1
    /\ UNCHANGED <<phase, closed>>

\* The interpreter starts to exit: the atexit hooks run next.
BeginExit ==
    /\ phase = "serving"
    /\ phase' = "exiting"
    /\ UNCHANGED <<browsers, objs, scraper, data, hooks, page, ret, last_ok, init_exc, closed>>

\* cleanup(), one registered hook: closes the scraper of the session state, if
\* any, and forgets it.
cleanup ==
    /\ phase = "exiting"
    /\ hooks > 0
    /\ hooks' = hooks - 1
    /\ IF scraper # 0
       THEN \E quit_ok \in BOOLEAN :
               LET c == close_driver(objs[scraper], browsers, quit_ok)
               IN  /\ browsers' = c.browsers
                   /\ closed' = [called |-> TRUE,
                                 before |-> DriverState(objs[scraper], browsers),
                                 quit_called |-> c.quit_called, exc |-> c.exc]
                   /\ scraper' = IF c.exc = "none" THEN 0 ELSE scraper
       ELSE UNCHANGED <<browsers, closed, scraper>>
    /\ UNCHANGED <<objs, data, phase, page, ret, last_ok, init_exc>>

\* Every hook has run: the process is gone.
Exit ==
    /\ phase = "exiting"
    /\ hooks = 0
    /\ phase' = "exited"
    /\ UNCHANGED <<browsers, objs, scraper, data, hooks, page, ret, last_ok, init_exc, closed>>

Next == RunIdle \/ RunClickInitFails \/ RunClick \/ BeginExit \/ cleanup \/ Exit

Spec == Init /\ [][Next]_vars

-----------------------------------------------------------------------------
(* get_stock_data alone, on every input of FetchPages *)

\* A scraper whose browser runs, one whose browser was quit, and an object
\* whose __init__ raised before self.driver was bound.
InitFetch ==
    /\ Fresh
    /\ scraper = 1
    /\ \/ LET made == AfterConstruct(<<>>, <<>>, Construct(FALSE, TRUE, "none"))
          IN  /\ objs = made.objs
              /\ browsers = made.browsers
              /\ page \in FetchPages
       \/ LET made == AfterConstruct(<<>>, <<>>, Construct(FALSE, TRUE, "none"))
          IN  /\ objs = made.objs
              /\ browsers = close_driver(made.objs[1], made.browsers, TRUE).browsers
              /\ page \in AppPages
       \/ LET made == AfterConstruct(<<>>, <<>>, Construct(FALSE, TRUE, "Chrome"))
          IN  /\ objs = made.objs
              /\ browsers = made.browsers
              /\ page \in AppPages

Fetch ==
    /\ ~ret.called
    /\ LET r == get_stock_data(DriverState(objs[scraper], browsers), page)
       IN  /\ ret' = Called(r)
           /\ last_ok' = IF r.exc = "none" /\ ~r.val.none THEN r.val ELSE last_ok
    /\ UNCHANGED <<browsers, objs, scraper, data, hooks, phase, page, init_exc, closed>>

NextFetch == Fetch

SpecFetch == InitFetch /\ [][NextFetch]_vars

-----------------------------------------------------------------------------
(* The class StockScraper used directly: any order of construction, *)
(* get_stock_data and close_driver.  The methods are called on any   *)
(* instance, one whose __init__ raised included: close_driver tests  *)
(* hasattr(self, 'driver') for that case.                            *)

ScraperPages ==
    { Page(NoFail, Table(8, <<BaseRow>>)),
      Page([at |-> "until", exc |-> "TimeoutException"], Table(8, <<BaseRow>>)) }

New ==
    /\ Len(objs) < MaxObjs
    /\ \E wp \in BOOLEAN, headless \in BOOLEAN :
          \E fail_at \in InitSteps(wp) \cup {"none"} :
             LET c == Construct(wp, headless, fail_at)
                 after == AfterConstruct(browsers, objs, c)
             IN  /\ browsers' = after.browsers
                 /\ objs' = after.objs
                 /\ init_exc' = c.raised
    /\ UNCHANGED <<scraper, data, hooks, phase, page, ret, last_ok, closed>>

Get ==
    /\ \E i \in 1..Len(objs), pg \in ScraperPages :
          LET r == get_stock_data(DriverState(objs[i], browsers), pg)
          IN  /\ page' = pg
              /\ ret' = Called(r)
              /\ last_ok' = IF r.exc = "none" /\ ~r.val.none THEN r.val ELSE last_ok
    /\ UNCHANGED <<browsers, objs, scraper, data, hooks, phase, init_exc, closed>>

Close ==
    /\ \E i \in 1..Len(objs), quit_ok \in BOOLEAN :
          /\ objs[i].driver # 0 => browsers[objs[i].driver].quits < MaxCloses
          /\ LET c == close_driver(objs[i], browsers, quit_ok)
             IN  /\ browsers' = c.browsers
                 /\ closed' = [called |-> TRUE, before |-> DriverState(objs[i], browsers),
                               quit_called |-> c.quit_called, exc |-> c.exc]
    /\ UNCHANGED <<objs, scraper, data, hooks, phase, page, ret, last_ok, init_exc>>

NextScraper == New \/ Get \/ Close

SpecScraper == Init /\ [][NextScraper]_vars

-----------------------------------------------------------------------------
(* Properties of get_stock_data, under SpecFetch *)

\* The call made in SpecFetch ran on a live browser and every statement up to
\* read_html succeeded: the parsed table decides the outcome.
TableParsed ==
    /\ ret.called
    /\ DriverState(objs[scraper], browsers) = "running"
    /\ page.fail.at = "none"

\* The call made in SpecFetch met a failure: a statement raised, or the table
\* has fewer than eight columns.
FetchFailed ==
    \/ Body(DriverState(objs[scraper], browsers), page).exc # "none"
    \/ page.fail.at = "none" /\ page.table.ncols < 8

\* C1: get_stock_data never lets an exception reach its caller; whatever
\* fails during the fetch (timeout, element not found, driver error, too few
\* columns, conversion error, any other error), the call returns None.
C1_FetchNeverRaises ==
    ret.called => /\ ret.exc = "none"
                  /\ FetchFailed => ret.val = None

\* C1 witness: an error no specific clause names (read_html cannot import its
\* parser) ended the fetch, and the call returned None.
C1_Witness ==
    /\ ret.called
    /\ DriverState(objs[scraper], browsers) = "running"
    /\ page.fail.at = "read_html"
    /\ page.fail.exc = "ImportError"
    /\ ret.val = None
    /\ ret.log = "unexpected"

\* C2: a table of eight columns and no data row yields an empty series, not None.
C2_EmptyTableGivesEmptySeries ==
    (TableParsed /\ page.table.ncols = 8 /\ Len(page.table.rows) = 0)
        => ret.val = DataFrame(<<>>)

\* C3: a table of more than eight columns yields a series built from its
\* first eight columns; the ninth and later columns are ignored.
C3_ExtraColumnsIgnored ==
    (TableParsed /\ page.table.ncols > 8 /\ Len(page.table.rows) > 0)
        => ret.val = DataFrame(Cleanse(page.table.rows))

\* C4: a date text that does not parse as YY/MM/DD but is a valid YYYY/MM/DD
\* date comes out as that calendar date, not as null.
C4_FourDigitYearFallback ==
    (TableParsed /\ ~ret.val.none) =>
        \A i \in 1..Len(page.table.rows) :
            LET c == page.table.rows[i][1]
            IN  (c.k = "str" /\ Strptime(c.s, "y").nat /\ ~Strptime(c.s, "Y").nat)
                    => \E j \in 1..Len(ret.val.rows) :
                          ret.val.rows[j].date = Ts(Strptime(c.s, "Y"))

\* C9: a table of fewer than eight columns makes get_stock_data return None
\* through the column-count branch: the structural mismatch is logged and no
\* column is renamed or normalized.
C9_ColumnCountGate ==
    (TableParsed /\ page.table.ncols < 8)
        => /\ ret.val = None
           /\ ret.exc = "none"
           /\ ret.log = "columns"
           /\ ret.reached = "gate"

\* C9 witness: a seven-column table with data rows was fetched and rejected.
C9_Witness ==
    /\ TableParsed
    /\ page.table.ncols = 7
    /\ Len(page.table.rows) > 0
    /\ ret.val = None
    /\ ret.reached = "gate"

\* C10: a change_percent cell gets the cleanup of the price columns
\* (thousands separators removed, "---" made null) besides the removal of the
\* percent sign, and comes out as the number that is left.
C10_PercentCleanedLikePrices ==
    (TableParsed /\ ~ret.val.none) =>
        \A i \in 1..Len(page.table.rows) :
            \E j \in 1..Len(ret.val.rows) :
                ret.val.rows[j].change_percent
                    = CleanPrice(Replace(page.table.rows[i][7].s, Percent, <<>>))

-----------------------------------------------------------------------------
(* Properties of the interactive session, under Spec *)

\* C5: at the end of the process every browser that was started has been
\* quit exactly once.
C5_EveryBrowserReleasedOnce ==
    phase = "exited" => \A b \in 1..Len(browsers) : browsers[b].quits = 1

\* C7: every browser that was started belongs to a scraper whose
\* initialization completed, and has both timeouts set; a failed
\* initialization leaves no browser behind.
C7_InitializationAtomic ==
    \A b \in 1..Len(browsers) :
        /\ \E i \in 1..Len(objs) : objs[i].driver = b /\ objs[i].init_ok
        /\ browsers[b].implicit_wait = 10
        /\ browsers[b].page_load_timeout = 30

\* C8: the cached data is the series the most recent successful fetch
\* returned, and is absent while no fetch has succeeded; a failed fetch leaves
\* it as it was.
C8_CacheIsLastSuccess == data = last_ok

\* C8 witness: a fetch failed after an earlier one succeeded, and the earlier
\* series is still cached.
C8_Witness ==
    /\ ret.called
    /\ ret.val = None
    /\ ~data.none
    /\ data = last_ok

-----------------------------------------------------------------------------
(* Properties of close_driver, under SpecScraper *)

\* C6: close_driver on a scraper whose browser is already closed, or was
\* never opened, calls no quit() and raises nothing; no call of it raises.
C6_CloseIdempotent ==
    closed.called =>
        /\ closed.exc = "none"
        /\ closed.before \in {"absent", "dead"} => ~closed.quit_called

====
